---- MODULE Spec2Model ----
(***************************************************************************)
(* Jovimetrix web extensions: the QUEUE (JOV) node extension (queue.js)    *)
(* as a state machine of its handlers, and the menu extension              *)
(* (core_cozy_menu.js) as one call of its getExtraMenuOptions.             *)
(*                                                                         *)
(* A JavaScript string is a sequence of one-character strings, so that     *)
(* split('\n'), join('\n') and the report's template literal are computed  *)
(* and not assumed.  The JavaScript value undefined of a numeric field is  *)
(* written Undefined.                                                      *)
(***************************************************************************)
EXTENDS Integers, Sequences, FiniteSets, TLC

\* ------------------------------------------------------------- bounds
MaxLen == 1      \* longest text a user types into the Q widget
MaxIdx == 2      \* largest index i a progress payload carries
MaxItems == 1    \* longest list l a progress payload carries

\* ------------------------------------------------------------ strings
NL == "\n"
Chars == {"a", NL}

Str(n) == UNION {[1..k -> Chars] : k \in 0..n}

Texts == Str(MaxLen)

DigitChar == <<"0", "1", "2", "3", "4", "5", "6", "7", "8", "9">>

\* `${n}` of a non-negative integer
RECURSIVE NumToStr(_)
NumToStr(n) ==
    IF n < 10 THEN <<DigitChar[n + 1]>>
    ELSE NumToStr(n \div 10) \o <<DigitChar[(n % 10) + 1]>>

\* String.prototype.split('\n')
RECURSIVE split(_)
split(s) ==
    IF \A k \in 1..Len(s) : s[k] # NL THEN <<s>>
    ELSE LET k == CHOOSE j \in 1..Len(s) :
                     s[j] = NL /\ \A h \in 1..(j - 1) : s[h] # NL
         IN <<SubSeq(s, 1, k - 1)>> \o split(SubSeq(s, k + 1, Len(s)))

\* Array.prototype.join('\n')
RECURSIVE join(_)
join(a) ==
    IF a = <<>> THEN <<>>
    ELSE IF Len(a) = 1 THEN a[1]
    ELSE a[1] \o <<NL>> \o join(Tail(a))

\* ---------------------------------------------------------- constants
prefix == "U+1F984"          \* the placeholder glyph _prefix
Undefined == -1              \* a numeric field that was never assigned

Nodes == {1, 2}              \* ids the host gives to queue nodes

\* The widgets of the node type that onNodeCreated looks up by name.
WidgetNames == {"Q", "RESET", "VAL"}

\* ------------------------------------------------- the downstream graph
\* What app.graph.getNodeById and the host's link arguments resolve to:
\* node 7 has inputs and widgets, node 8 has no inputs, any other id is
\* no node.  An input slot has a name and a type; a widget has a name, a
\* type, an origType and (for an enumerated widget) options.values.
ComboValues == << <<"a">>, <<"a", "a">> >>


GraphHasNode(id) == id \in {7, 8}
GraphHasInputs(id) == id = 7

Inputs7 == << [name |-> "mode", type |-> "COMBO"],
              [name |-> "x", type |-> "INT"],
              [name |-> "ghost", type |-> "COMBO"] >>

Widgets7 == { [name |-> "mode", type |-> "converted-widget",
               origType |-> "combo", values |-> ComboValues],
              [name |-> "x", type |-> "number",
               origType |-> "undefined", values |-> <<>>] }

\* node.inputs[slot] of node 7 (slots count from 0)
HasInput(slot) == slot + 1 \in DOMAIN Inputs7
InputAt(slot) == Inputs7[slot + 1]

\* widgets.find(w => w.name === name)
HasWidget(name) == \E w \in Widgets7 : w.name = name
FindWidget(name) == CHOOSE w \in Widgets7 : w.name = name

\* --------------------------------------------------------------- state
VARIABLES
    widgets,        \* names of the widgets the node type declares (this.widgets)
    widget_queue,   \* whether this.widget_queue, which queue.js reads and never
                    \* assigns, is set on the node objects (to the Q widget)
    session,        \* ids of the queue nodes the host's graph holds
    node,           \* node[n]: the fields of queue node n, see Blank
    last,           \* the handler that ran last and what came out of it
    menu            \* the menu extension's call of getExtraMenuOptions, see NoMenu

vars == <<widgets, widget_queue, session, node, last, menu>>

\* ------------------------------------------- core_cozy_menu.js
MaxDeclared == 2   \* most inputs a node type declares (required and optional)
MaxOptions == 2    \* most entries the host's menu holds before the call

CONVERTED_TYPE == "converted-widget"

\* names of declared inputs and of widgets
MenuNames == {"a", "b"}

\* matchingTypes: the names of the required inputs, then of the optional
DeclaredLists == UNION {[1..k -> MenuNames] : k \in 0..MaxDeclared}

\* A widget of the node, or that the node has no widget of the name;
\* forceInput and menu are widget.options?.forceInput and
\* widget.options?.menu.
NoWidget == [present |-> FALSE, type |-> "none", forceInput |-> "undefined",
             menu |-> "undefined"]

WidgetKinds ==
    {NoWidget} \cup
    [present : {TRUE}, type : {"number", CONVERTED_TYPE},
     forceInput : {"undefined", "false", "true"}, menu : {"undefined", "false"}]

\* A menu entry: {content, callback}, or the separator null.
Item(content) == [kind |-> "item", content |-> content]
Null == [kind |-> "null", content |-> <<>>]

Convert == <<"C", "o", "n", "v", "e", "r", "t">>

\* `Convsert ${widget.name} to input`
EntryContent(name) ==
    <<"C", "o", "n", "v", "s", "e", "r", "t", " ", name, " ",
      "t", "o", " ", "i", "n", "p", "u", "t">>

\* entries that the host or another extension put into the menu
OtherEntries == { Null,
                  Item(Convert \o <<" ", "a", " ", "t", "o", " ", "i", "n", "p", "u", "t">>),
                  Item(<<"P", "r", "o", "p", "e", "r", "t", "i", "e", "s">>) }

OptionLists == UNION {[1..k -> OtherEntries] : k \in 0..MaxOptions}

\* String.prototype.startsWith
startsWith(str, p) == Len(str) >= Len(p) /\ SubSeq(str, 1, Len(p)) = p

\* the test of lines 39 to 41, without its look at options.menu
Convertible_ignoring_menu(w) ==
    /\ w.present
    /\ w.type # CONVERTED_TYPE
    /\ (w.forceInput = "undefined" \/ w.forceInput = "false")

\* the test of lines 39 to 41 on what widgets.find returned
Convertible(w) ==
    /\ w.present
    /\ w.type # CONVERTED_TYPE
    /\ (w.forceInput = "undefined" \/ w.forceInput = "false")
    /\ w.menu # "false"

\* convertToInputArray: the loop over matchingTypes
RECURSIVE convertToInputArray(_, _)
convertToInputArray(declared, found) ==
    IF declared = <<>> THEN <<>>
    ELSE (IF Convertible(found[Head(declared)])
          THEN <<Item(EntryContent(Head(declared)))>> ELSE <<>>)
         \o convertToInputArray(Tail(declared), found)

\* the filter of lines 51 to 53
KeepOption(option) ==
    option.kind = "null" \/ ~startsWith(option.content, Convert)

\* No call yet.  declared is matchingTypes; has_widgets says whether
\* this.widgets is defined and found[name] is what widgets.find returns;
\* has_options says whether the host passed an options array, host is
\* that array and options the function's own variable of that name;
\* built is convertToInputArray.
NoMenu ==
    [ called |-> FALSE, declared |-> <<>>, has_widgets |-> FALSE,
      found |-> [name \in MenuNames |-> NoWidget],
      has_options |-> FALSE, host |-> <<>>, options |-> <<>>,
      built |-> <<>>, outcome |-> "none" ]

getExtraMenuOptions(m) ==
    LET built == convertToInputArray(m.declared, m.found)
        filtered == IF m.has_options THEN SelectSeq(m.options, KeepOption)
                    ELSE m.options
    IN IF ~m.has_widgets THEN [m EXCEPT !.called = TRUE, !.outcome = "ok"]
       ELSE IF built = <<>>
       THEN [m EXCEPT !.called = TRUE, !.built = built, !.options = filtered,
                      !.outcome = "ok"]
       ELSE IF ~m.has_options
       THEN [m EXCEPT !.called = TRUE, !.built = built, !.outcome = "throw"]
       ELSE [m EXCEPT !.called = TRUE, !.built = built,
                      !.options = filtered \o built \o <<Null>>,
                      !.outcome = "ok"]


\* A widget value: a number, a string of digits (v is the number the
\* digits spell) or a boolean (v is 1 for true, 0 for false).
Number(v) == [type |-> "number", v |-> v]
DigitString(v) == [type |-> "string", v |-> v]
False == [type |-> "boolean", v |-> 0]

\* the values the VAL widget takes: 0, 5, "0" and false
ValValues == {Number(0), Number(5), DigitString(0), False}

\* A node object the host has allocated, before onNodeCreated ran; the
\* host makes every widget visible.
Blank ==
    [ created      |-> FALSE,       \* onNodeCreated was called
      data_index   |-> Undefined,   \* this.data_index    (cursor)
      data_count   |-> Undefined,   \* this.data_count
      data_all     |-> <<>>,        \* this.data_all      (items)
      data_current |-> <<>>,        \* this.data_current  (currentLabel)
      listener     |-> FALSE,       \* 'input' listener on Q's inputEl
      has_report   |-> FALSE,       \* this.widget_report exists
      report       |-> <<>>,        \* this.widget_report.value
      reported     |-> FALSE,       \* update_report has written the report
      subscribed   |-> FALSE,       \* ping/done listeners are on the api bus
      out_name     |-> prefix,      \* this.outputs[0].name
      Q_value      |-> <<>>,        \* value of the Q widget
      destroyed    |-> FALSE,       \* onDestroy was called
      VAL_value    |-> Number(0),   \* value of the VAL widget
      RESET_value  |-> FALSE,       \* value of the RESET toggle
      hold_shown   |-> TRUE,        \* the hold widget is visible
      reset_shown  |-> TRUE,        \* the RESET widget is visible
      timer        |-> FALSE ]      \* the setTimeout of onNodeCreated is pending

\* What a handler run leaves behind for the properties to read:
\* outcome is "ok", "throw" (a TypeError left the handler), and for
\* onConnectOutput "reject" (it returned false) or "chain" (it returned
\* what the previously installed handler returned); sent lists the node
\* ids of the "reset" commands it sent; chained counts its calls of the
\* previously installed handler; seen is the event.detail that a progress
\* listener took past its id filter (NoDetail when none did); args are the
\* arguments onConnectOutput or onConnectionsChange was called with.
NoDetail == [id |-> [type |-> "none", v |-> 0], i |-> 0, l |-> <<>>, c |-> <<>>]

Ran(op, id, outcome, sent, chained) ==
    [op |-> op, id |-> id, outcome |-> outcome, sent |-> sent, chained |-> chained,
     seen |-> NoDetail, args |-> <<>>]

\* The node type's widgets and this.widget_queue are the same for every
\* node of the type.
InitType ==
    /\ widgets \in SUBSET WidgetNames
    /\ widget_queue \in BOOLEAN
    /\ widget_queue => "Q" \in widgets

\* A session with one queue node, which is edited, pinged and linked.
Init ==
    /\ InitType
    /\ session = {1}
    /\ node = [n \in Nodes |-> Blank]
    /\ last = Ran("init", 0, "ok", <<>>, 0)
    /\ menu = NoMenu

\* ------------------------------------------------------ report and list
\* update_report: the text written to the report widget
ReportText(index, all, current) ==
    <<"[">> \o NumToStr(index) \o <<" ", "/", " ">> \o NumToStr(Len(all))
        \o <<"]", NL>> \o current

\* update_report(self): throws when self.widget_report is undefined
update_report_throws(s) == ~s.has_report

update_report(s) ==
    [s EXCEPT !.report = ReportText(s.data_index, s.data_all, s.data_current),
              !.reported = TRUE]

\* update_list without its reset of data_index
update_list_fields_keep_index(s, value) ==
    [s EXCEPT !.data_count = Len(value),
              !.data_current = <<>>]

\* update_list(self, value) up to and including its call of update_report
update_list_fields(s, value) ==
    [s EXCEPT !.data_count = Len(value),
              !.data_index = 1,
              !.data_current = <<>>]

update_list_throws(s, value) == update_report_throws(update_list_fields(s, value))

\* update_list without its call of update_report
update_list_no_report(s, value) == update_list_fields(s, value)

update_list(s, value) ==
    IF update_list_throws(s, value) THEN update_list_fields(s, value)
    ELSE update_report(update_list_fields(s, value))

\* the api_cmd_jovian(self.id, "reset") calls of update_list
update_list_sent(n, s, value) ==
    IF update_list_throws(s, value) THEN <<>> ELSE <<n>>

\* ------------------------------------------------------- onNodeCreated
\* The function has no await: it runs to its end or to its first TypeError
\* (widget_value.callback = ... and widget_reset.callback = ... on a widget
\* that find() did not return).
onNodeCreated_throws == "VAL" \notin widgets \/ "RESET" \notin widgets

onNodeCreated(s) ==
    LET s1 == [s EXCEPT !.created = TRUE,
                        !.data_index = 1,
                        !.data_current = <<>>,
                        !.data_all = <<>>]
        s2 == [s1 EXCEPT !.listener = ("Q" \in widgets)]
        s3 == [s2 EXCEPT !.has_report = TRUE,
                         !.report = <<>>,
                         !.subscribed = TRUE,
                         !.timer = TRUE]
    IN IF "VAL" \notin widgets THEN s1
       ELSE IF "RESET" \notin widgets THEN s2
       ELSE s3

Create(n) ==
    /\ n \in session
    /\ ~node[n].created
    /\ node' = [node EXCEPT ![n] = onNodeCreated(node[n])]
    /\ last' = Ran("create", n, IF onNodeCreated_throws THEN "throw" ELSE "ok", <<>>, 1)
    /\ UNCHANGED <<widgets, widget_queue, session, menu>>

\* ------------------------------------------- 'input' listener on Q
ListEdited(n, t) ==
    /\ n \in session
    /\ node[n].listener
    /\ ~node[n].destroyed
    /\ LET s == [node[n] EXCEPT !.Q_value = t]
           value == split(s.Q_value)
       IN /\ node' = [node EXCEPT ![n] = update_list(s, value)]
          /\ last' = Ran("edit", n,
                         IF update_list_throws(s, value) THEN "throw" ELSE "ok",
                         update_list_sent(n, s, value), 0)
    /\ UNCHANGED <<widgets, widget_queue, session, menu>>

\* ------------------------------------------------ widget_value.callback
\* widget_hide and widget_show of util_widget.js, as the specification
\* describes them: the control is hidden, or shown again.
widget_hide(shown) == FALSE
widget_show(shown) == TRUE

\* widget_value.value == 0: the loose comparison converts the value to a
\* number first
ToNumber(x) == x.v
EqualsZero(x) == ToNumber(x) = 0

\* the callback without its two calls of widget_hide
value_callback_never_hiding(s) ==
    IF EqualsZero(s.VAL_value)
    THEN [s EXCEPT !.reset_shown = widget_show(s.reset_shown),
                   !.hold_shown = widget_show(s.hold_shown)]
    ELSE s

value_callback(s) ==
    LET hidden == [s EXCEPT !.hold_shown = widget_hide(s.hold_shown),
                            !.reset_shown = widget_hide(s.reset_shown)]
    IN IF EqualsZero(s.VAL_value)
       THEN [hidden EXCEPT !.reset_shown = widget_show(hidden.reset_shown),
                           !.hold_shown = widget_show(hidden.hold_shown)]
       ELSE hidden

\* The host stores the new value in the VAL widget and calls its callback.
ValueChanged(n, v) ==
    /\ n \in session
    /\ node[n].created /\ "VAL" \in widgets
    /\ ~node[n].destroyed
    /\ node' = [node EXCEPT ![n] = value_callback([node[n] EXCEPT !.VAL_value = v])]
    /\ last' = Ran("value", n, "ok", <<>>, 0)
    /\ UNCHANGED <<widgets, widget_queue, session, menu>>

\* setTimeout(() => { widget_value.callback(); }, 10) comes due
TimerFires(n) ==
    /\ n \in session
    /\ node[n].timer
    /\ node' = [node EXCEPT ![n] = [value_callback(node[n]) EXCEPT !.timer = FALSE]]
    /\ last' = Ran("timer", n, "ok", <<>>, 0)
    /\ UNCHANGED <<widgets, widget_queue, session, menu>>

\* ------------------------------------------------ widget_reset.callback
\* the callback without its widget_reset.value = false
reset_callback_keeping_value(s) == s

\* the callback of lines 67 to 70 if it also took the cursor back to 1
reset_callback_rewinding(s) == [s EXCEPT !.RESET_value = FALSE, !.data_index = 1]

reset_callback(s) == [s EXCEPT !.RESET_value = FALSE]

\* A click turns the toggle on and calls the callback, which exists once
\* onNodeCreated got past its line 67.
ResetClicked(n) ==
    /\ n \in session
    /\ node[n].created /\ "VAL" \in widgets /\ "RESET" \in widgets
    /\ ~node[n].destroyed
    /\ node' = [node EXCEPT ![n] = reset_callback([node[n] EXCEPT !.RESET_value = TRUE])]
    /\ last' = Ran("reset", n, "ok", <<n>>, 0)
    /\ UNCHANGED <<widgets, widget_queue, session, menu>>

\* ------------------------------------------------ events of the api bus
\* event.detail.id is a number or, after a round trip through JSON written
\* by the worker, a string of digits; self.id is a number.
EventIds == { [type |-> "number", v |-> 1], [type |-> "number", v |-> 2],
              [type |-> "number", v |-> 3], [type |-> "string", v |-> 1] }

\* event.detail.id != self.id   (the loose comparison converts the string)
IdDiffers(id, n) == id.v # n

\* the lists a payload carries: 0..MaxItems items
PayloadLists == {[k \in 1..m |-> <<"a">>] : m \in 0..MaxItems}

Payloads == [id : EventIds, i : 1..MaxIdx, l : PayloadLists, c : {<<>>, <<"a">>}]

\* python_queue_ping without its assignment of data_current
python_queue_ping_no_current(n, s, detail) ==
    IF IdDiffers(detail.id, n) THEN s
    ELSE update_report([s EXCEPT !.data_index = detail.i,
                                 !.data_all = detail.l])

\* python_queue_ping without its comparison of ids
python_queue_ping_unfiltered(n, s, detail) ==
    update_report([s EXCEPT !.data_index = detail.i,
                            !.data_all = detail.l,
                            !.data_current = detail.c])

python_queue_ping(n, s, detail) ==
    IF IdDiffers(detail.id, n) THEN s
    ELSE update_report([s EXCEPT !.data_index = detail.i,
                                 !.data_all = detail.l,
                                 !.data_current = detail.c])

\* api dispatches the event to every listener that is still subscribed
Ping(detail) ==
    /\ \E n \in session : node[n].subscribed
    /\ node' = [n \in Nodes |->
                   IF node[n].subscribed THEN python_queue_ping(n, node[n], detail)
                   ELSE node[n]]
    /\ last' = [Ran("ping", detail.id.v, "ok", <<>>, 0) EXCEPT
                    !.seen = IF \E n \in session :
                                    node[n].subscribed /\ ~IdDiffers(detail.id, n)
                             THEN detail ELSE NoDetail]
    /\ UNCHANGED <<widgets, widget_queue, session, menu>>

\* python_queue_done: "skip" (other id), "flash", or "throw" when
\* self.widget_queue is undefined and .inputEl is read from it
python_queue_done(n, id) ==
    IF IdDiffers(id, n) THEN "skip"
    ELSE IF ~widget_queue THEN "throw"
    ELSE "flash"

Done(id) ==
    /\ \E n \in session : node[n].subscribed
    /\ LET outs == {python_queue_done(n, id) : n \in {m \in Nodes : node[m].subscribed}}
       IN last' = Ran("done", id.v,
                      IF "throw" \in outs THEN "throw"
                      ELSE IF "flash" \in outs THEN "flash" ELSE "ok",
                      <<>>, 0)
    /\ UNCHANGED <<widgets, widget_queue, session, node, menu>>

\* ------------------------------------------------------------ onDestroy
\* onDestroy without its removeEventListener calls
onDestroy_leaking(s) == [s EXCEPT !.destroyed = TRUE]

\* this.onDestroy: both listeners are taken off the api bus
onDestroy(s) == [s EXCEPT !.destroyed = TRUE, !.subscribed = FALSE]

Destroy(n) ==
    /\ n \in session
    /\ node[n].created
    /\ ~node[n].destroyed
    /\ node' = [node EXCEPT ![n] = onDestroy(node[n])]
    /\ last' = Ran("destroy", n, "ok", <<>>, 0)
    /\ UNCHANGED <<widgets, widget_queue, session, menu>>

\* ------------------------------------------------------ onConnectOutput
\* The host passes the input slot of the node the link would end at, here
\* an input of graph node 7, and that slot's type.
\* onConnectOutput testing for the placeholder instead of against it
onConnectOutput_on_placeholder(s, outputIndex, inputType, inputSlot) ==
    IF outputIndex = 0 /\ inputType = "COMBO"
    THEN IF s.out_name = prefix
         THEN IF ~widget_queue THEN "throw"
              ELSE IF ~HasWidget(inputSlot.name) THEN "throw"
              ELSE IF s.Q_value # join(FindWidget(inputSlot.name).values)
                   THEN "reject"
                   ELSE "chain"
         ELSE "chain"
    ELSE "chain"

onConnectOutput(s, outputIndex, inputType, inputSlot) ==
    IF outputIndex = 0 /\ inputType = "COMBO"
    THEN IF s.out_name # prefix
         THEN IF ~widget_queue THEN "throw"
              ELSE IF ~HasWidget(inputSlot.name) THEN "throw"
              ELSE IF s.Q_value # join(FindWidget(inputSlot.name).values)
                   THEN "reject"
                   ELSE "chain"
         ELSE "chain"
    ELSE "chain"

ConnectOutput(n, outputIndex, slot) ==
    /\ n \in session
    /\ node[n].created
    /\ ~node[n].destroyed
    /\ LET out == onConnectOutput(node[n], outputIndex, InputAt(slot).type, InputAt(slot))
       IN last' = [Ran("gate", n, out, <<>>, IF out = "chain" THEN 1 ELSE 0) EXCEPT
                      !.args = <<outputIndex, slot>>]
    /\ UNCHANGED <<widgets, widget_queue, session, node, menu>>

\* -------------------------------------------------- onConnectionsChange
NoLink == <<>>
\* <<target_id, target_slot>>: the two inputs of node 7 that have a widget,
\* its input without one, a slot it does not have, node 8 and no node
LinkInfos == {NoLink, <<7, 0>>, <<7, 1>>, <<7, 2>>, <<7, 3>>, <<8, 0>>, <<9, 0>>}

IsCombo(w) == w.origType = "combo" \/ w.type = "COMBO"

\* The node's fields after the handler, with "out", "sent" and "chained"
\* as in Ran.
Handled(s, out, sent, chained) ==
    [s |-> s, out |-> out, sent |-> sent, chained |-> chained]

\* the early return of a connect event that does not resolve to a widget,
\* had it reverted the output's name
Unresolved_reverting(s) ==
    Handled([s EXCEPT !.out_name = prefix], "ok", <<>>, 0)

\* the early return of a connect event that does not resolve to a widget
Unresolved(s) == Handled(s, "ok", <<>>, 0)

\* a disconnect, or an event without link_info, had it kept the name
Disconnected_keeping_name(s) == Handled(s, "ok", <<>>, 1)

\* a disconnect, or an event without link_info: this.outputs[0].name = _prefix
Disconnected(s) == Handled([s EXCEPT !.out_name = prefix], "ok", <<>>, 1)

onConnectionsChange(n, s, slotType, slot, event, link_info) ==
    IF slotType = "Output" /\ slot = 0
    THEN IF link_info # NoLink
         THEN IF event = "Connect"
              THEN IF ~GraphHasNode(link_info[1]) \/ ~GraphHasInputs(link_info[1])
                   THEN Unresolved(s)
                   ELSE IF ~HasInput(link_info[2])
                   THEN Unresolved(s)
                   ELSE IF ~HasWidget(InputAt(link_info[2]).name)
                   THEN Unresolved(s)
                   ELSE LET widget == FindWidget(InputAt(link_info[2]).name)
                            s1 == [s EXCEPT !.out_name = widget.name]
                            s2 == [s1 EXCEPT !.Q_value = join(widget.values)]
                        IN IF IsCombo(widget)
                           THEN IF ~widget_queue
                                THEN Handled(s1, "throw", <<>>, 0)
                                ELSE IF update_list_throws(s2, widget.values)
                                THEN Handled(update_list(s2, widget.values), "throw", <<>>, 0)
                                ELSE Handled(update_list(s2, widget.values), "ok",
                                             update_list_sent(n, s2, widget.values), 1)
                           ELSE Handled(s1, "ok", <<>>, 1)
              ELSE Disconnected(s)
         ELSE Disconnected(s)
    ELSE Handled(s, "ok", <<>>, 1)

ConnectionsChange(n, slotType, slot, event, link_info) ==
    /\ n \in session
    /\ node[n].created
    /\ ~node[n].destroyed
    /\ LET h == onConnectionsChange(n, node[n], slotType, slot, event, link_info)
       IN /\ node' = [node EXCEPT ![n] = h.s]
          /\ last' = [Ran("link", n, h.out, h.sent, h.chained) EXCEPT
                         !.args = <<slotType, slot, event, link_info>>]
    /\ UNCHANGED <<widgets, widget_queue, session, menu>>

Next ==
    \/ \E n \in Nodes : Create(n)
    \/ \E n \in Nodes, t \in Texts : ListEdited(n, t)
    \/ \E detail \in Payloads : Ping(detail)
    \/ \E id \in EventIds : Done(id)
    \/ \E n \in Nodes : Destroy(n)
    \/ \E n \in Nodes, outputIndex \in {0, 1}, slot \in 0..2 :
           ConnectOutput(n, outputIndex, slot)
    \/ \E n \in Nodes, slotType \in {"Input", "Output"}, slot \in {0, 1},
          event \in {"Connect", "Disconnect"}, link_info \in LinkInfos :
           ConnectionsChange(n, slotType, slot, event, link_info)

Spec == Init /\ [][Next]_vars

\* A session with two queue nodes on the one api bus, neither edited nor
\* linked: what the worker's events do to each of them.
InitBus ==
    /\ InitType
    /\ session = Nodes
    /\ node = [n \in Nodes |-> Blank]
    /\ last = Ran("init", 0, "ok", <<>>, 0)
    /\ menu = NoMenu

NextBus ==
    \/ \E n \in Nodes : Create(n)
    \/ \E detail \in Payloads : Ping(detail)
    \/ \E id \in EventIds : Done(id)
    \/ \E n \in Nodes : Destroy(n)

SpecBus == InitBus /\ [][NextBus]_vars

\* A session with one queue node whose VAL widget holds any of ValValues
\* when the node is created (the default, or the value a workflow stored),
\* and whose value and reset controls are used.
InitValue ==
    /\ InitType
    /\ session = {1}
    /\ \E v \in ValValues : node = [n \in Nodes |-> [Blank EXCEPT !.VAL_value = v]]
    /\ last = Ran("init", 0, "ok", <<>>, 0)
    /\ menu = NoMenu

NextValue ==
    \/ \E n \in Nodes : Create(n)
    \/ \E n \in Nodes, v \in ValValues : ValueChanged(n, v)
    \/ \E n \in Nodes : TimerFires(n)
    \/ \E n \in Nodes : ResetClicked(n)
    \/ \E n \in Nodes : Destroy(n)

SpecValue == InitValue /\ [][NextValue]_vars

\* A session with one queue node of the registered type (all its widgets
\* exist) and every handler of the node: the host's link calls are those
\* for output socket 0, the worker's events carry a number as id.
InitAll ==
    /\ widgets = WidgetNames
    /\ widget_queue \in BOOLEAN
    /\ session = {1}
    /\ node = [n \in Nodes |-> Blank]
    /\ last = Ran("init", 0, "ok", <<>>, 0)
    /\ menu = NoMenu

NumberIds == {id \in EventIds : id.type = "number" /\ id.v \in Nodes}

NextAll ==
    \/ \E n \in Nodes : Create(n)
    \/ \E n \in Nodes, t \in Texts : ListEdited(n, t)
    \/ \E detail \in {d \in Payloads : d.id \in NumberIds} : Ping(detail)
    \/ \E id \in NumberIds : Done(id)
    \/ \E n \in Nodes : Destroy(n)
    \/ \E n \in Nodes, slot \in 0..2 : ConnectOutput(n, 0, slot)
    \/ \E n \in Nodes, event \in {"Connect", "Disconnect"}, link_info \in LinkInfos :
           ConnectionsChange(n, "Output", 0, event, link_info)
    \/ \E n \in Nodes, v \in {Number(0), Number(5)} : ValueChanged(n, v)
    \/ \E n \in Nodes : TimerFires(n)
    \/ \E n \in Nodes : ResetClicked(n)

SpecAll == InitAll /\ [][NextAll]_vars

\* The host opens the context menu of a node.
GetExtraMenuOptions ==
    /\ ~menu.called
    /\ menu' = getExtraMenuOptions(menu)
    /\ UNCHANGED <<widgets, widget_queue, session, node, last>>

\* A node of a (JOV) type and the menu the host is about to show for it.
InitMenu ==
    /\ widgets = WidgetNames
    /\ widget_queue = FALSE
    /\ session = {}
    /\ node = [n \in Nodes |-> Blank]
    /\ last = Ran("init", 0, "ok", <<>>, 0)
    /\ \E declared \in DeclaredLists, found \in [MenuNames -> WidgetKinds],
          has_widgets \in BOOLEAN, has_options \in BOOLEAN, host \in OptionLists :
           /\ has_options \/ host = <<>>
           /\ has_widgets \/ found = [name \in MenuNames |-> NoWidget]
           /\ menu = [NoMenu EXCEPT !.declared = declared, !.found = found,
                                    !.has_widgets = has_widgets,
                                    !.has_options = has_options,
                                    !.host = host, !.options = host]

SpecMenu == InitMenu /\ [][GetExtraMenuOptions]_vars

\* ========================================================== properties
\* The report format the specification gives:
\* "[<cursor> / <items.length>]\n<currentLabel>"
Rendered(cursor, count, label) ==
    <<"[">> \o NumToStr(cursor) \o <<" ", "/", " ">> \o NumToStr(count)
        \o <<"]", NL>> \o label

\* The handler that ran last was handler op of node n.
JustRan(op, n) == last.op = op /\ last.id = n

\* C1: after a list edit with text T the node's items are T split on
\* newline, cursor is 1, currentLabel is empty and the report reads
\* "[1 / n]\n" with n the number of lines of T.
C1_EditSetsItemsAndReport ==
    \A n \in session :
        (JustRan("edit", n) /\ last.outcome = "ok") =>
            /\ node[n].data_all = split(node[n].Q_value)
            /\ node[n].data_index = 1
            /\ node[n].data_current = <<>>
            /\ node[n].report = Rendered(1, Len(split(node[n].Q_value)), <<>>)

\* C2: editing the list widget always resets cursor to 1 and currentLabel
\* to the empty string, whatever they were before.
C2_EditResetsCursorAndLabel ==
    \A n \in session :
        JustRan("edit", n) =>
            /\ node[n].data_index = 1
            /\ node[n].data_current = <<>>

\* C2 witness: an edit that came after a progress event (only a progress
\* event makes data_all non-empty).
C2_Witness ==
    \E n \in session :
        /\ JustRan("edit", n)
        /\ node[n].data_all # <<>>
        /\ node[n].data_index = 1
        /\ node[n].data_current = <<>>

\* C3: a progress event whose id matches the node's id overwrites cursor,
\* items and currentLabel with the payload's i, l and c, and the report
\* becomes "[i / length(l)]\nc".
C3_PingOverwrites ==
    \A n \in session :
        (JustRan("ping", n) /\ node[n].subscribed) =>
            /\ last.seen.id.v = n
            /\ node[n].data_index = last.seen.i
            /\ node[n].data_all = last.seen.l
            /\ node[n].data_current = last.seen.c
            /\ node[n].report = Rendered(last.seen.i, Len(last.seen.l), last.seen.c)

\* C3 witness: a matching progress event {id: "n", i: 2, l: [a], c: "a"}
\* was handled and the report reads "[2 / 1]\na".
C3_Witness ==
    \E n \in session :
        /\ JustRan("ping", n)
        /\ last.seen.id = [type |-> "string", v |-> n]
        /\ node[n].data_index = 2
        /\ node[n].data_all = << <<"a">> >>
        /\ node[n].data_current = <<"a">>
        /\ node[n].report = <<"[", "2", " ", "/", " ", "1", "]", NL, "a">>

\* C4: with several queue nodes on the same bus, a progress event
\* addressed to node id X leaves cursor, items, currentLabel and report of
\* every node whose id is not X unchanged.
C4_PingLeavesOtherNodes ==
    [][last'.op = "ping" =>
              \A n \in session :
                  last'.id # n =>
                      /\ node'[n].data_index = node[n].data_index
                      /\ node'[n].data_all = node[n].data_all
                      /\ node'[n].data_current = node[n].data_current
                      /\ node'[n].report = node[n].report]_vars

\* C4 witness: a progress event for node 1 was handled while node 2 was
\* subscribed too, and node 2 still shows its own, different progress.
C4_Witness ==
    /\ JustRan("ping", 1)
    /\ node[1].subscribed /\ node[2].subscribed
    /\ node[1].data_index = 2 /\ node[1].data_all = << <<"a">> >>
    /\ node[2].data_index = 1 /\ node[2].data_all = <<>>
    /\ node[2].report = Rendered(1, 0, <<"a">>)

\* C5: once the report has been computed, the report widget's text is
\* "[<cursor> / <number of items>]\n<currentLabel>" for the node's current
\* cursor, items and currentLabel, in every reachable state.
C5_ReportInSync ==
    \A n \in session :
        node[n].reported =>
            node[n].report =
                Rendered(node[n].data_index, Len(node[n].data_all), node[n].data_current)

\* C5 witness: a link to an enumerated widget reset the list of a node
\* that had shown progress 2 of 1, and the report followed.
C5_Witness ==
    \E n \in session :
        /\ JustRan("link", n)
        /\ last.sent = <<n>>
        /\ node[n].reported
        /\ node[n].data_all = << <<"a">> >>
        /\ node[n].report = <<"[", "1", " ", "/", " ", "1", "]", NL>>

\* The gate was called for output socket 0 and an enumerated-choice input
\* of node 7 that has a widget; DownValues is that widget's list joined.
GateOnCombo(n) ==
    /\ JustRan("gate", n)
    /\ last.args[1] = 0
    /\ InputAt(last.args[2]).type = "COMBO"
    /\ HasWidget(InputAt(last.args[2]).name)

DownValues == join(FindWidget(InputAt(last.args[2]).name).values)

ConnectRan(n) ==
    /\ JustRan("link", n)
    /\ last.args[1] = "Output" /\ last.args[2] = 0 /\ last.args[3] = "Connect"
    /\ last.args[4] # NoLink

Resolves(link_info) ==
    /\ link_info[1] = 7
    /\ HasInput(link_info[2])
    /\ HasWidget(InputAt(link_info[2]).name)

LinkedWidget == FindWidget(InputAt(last.args[4][2]).name)

\* C7 as stated: a new connection to an enumerated-choice widget renames
\* the output to the widget's name, replaces list text and items by the
\* widget's values, resets cursor and currentLabel and sends a reset.
C7_ComboLinkReplacesItems ==
    \A n \in session :
        (ConnectRan(n) /\ Resolves(last.args[4]) /\ IsCombo(LinkedWidget)) =>
            /\ node[n].out_name = LinkedWidget.name
            /\ node[n].Q_value = join(LinkedWidget.values)
            /\ node[n].data_all = LinkedWidget.values
            /\ node[n].data_index = 1
            /\ node[n].data_current = <<>>
            /\ last.sent = <<n>>

\* C7, second half as stated: a new connection to a widget that is not an
\* enumerated-choice widget does not rename the output.
C7_OtherLinkKeepsName ==
    [][\A n \in session :
          (ConnectRan(n) /\ Resolves(last.args[4]) /\ ~IsCombo(LinkedWidget))' =>
              node'[n].out_name = node[n].out_name]_vars

\* A disconnect event on output socket 0 ran.
DisconnectRan(n) ==
    /\ JustRan("link", n)
    /\ last.args[1] = "Output" /\ last.args[2] = 0 /\ last.args[3] = "Disconnect"

\* C8: after a disconnect event on output socket 0 the output's name is
\* the placeholder glyph.
C8_DisconnectRestoresPlaceholder ==
    \A n \in session : DisconnectRan(n) => node[n].out_name = prefix

\* C8 witness: a disconnect ran on a node whose list a link had replaced
\* (its Q text is the linked widget's values, so it had been renamed).
C8_Witness ==
    \E n \in session :
        /\ DisconnectRan(n)
        /\ last.args[4] # NoLink
        /\ node[n].Q_value = join(ComboValues)
        /\ node[n].out_name = prefix

\* C9 as stated: a connect event that cannot be resolved reverts the
\* output's name to the placeholder glyph.
C9_UnresolvedRevertsName ==
    \A n \in session :
        (ConnectRan(n) /\ ~Resolves(last.args[4])) => node[n].out_name = prefix

\* C9 amended: a connect event that cannot be resolved returns early and
\* leaves the output's name, and every other field of the node, as it was.
C9_UnresolvedKeepsName ==
    [][\A n \in session :
          (ConnectRan(n) /\ ~Resolves(last.args[4]))' => node'[n] = node[n]]_vars

\* C9 witness: an unresolvable connect ran on an output named "mode".
C9_Witness ==
    \E n \in session :
        /\ ConnectRan(n)
        /\ ~Resolves(last.args[4])
        /\ node[n].out_name = "mode"

\* C10 as stated: no handler throws.
C10_NoHandlerThrows == last.outcome # "throw"

\* The value callback ran last on node n: after a value change, or as the
\* deferred invocation of onNodeCreated.
CallbackRan(n) == JustRan("value", n) \/ JustRan("timer", n)

\* C11 as stated: the value callback leaves hold and reset visible if and
\* only if the value is exactly the number 0; for every other value, the
\* string "0" and false among them, both end hidden.
C11_ShownIffNumberZero ==
    \A n \in session :
        CallbackRan(n) =>
            IF node[n].VAL_value = Number(0)
            THEN node[n].hold_shown /\ node[n].reset_shown
            ELSE ~node[n].hold_shown /\ ~node[n].reset_shown

\* C12 as stated: in every reachable state of a created node that has
\* all its widgets, from its creation on, hold and reset are visible only
\* when the value widget equals zero.
C12_ShownOnlyAtZero ==
    \A n \in session :
        (node[n].created /\ widgets = WidgetNames) =>
            ((node[n].hold_shown \/ node[n].reset_shown) => EqualsZero(node[n].VAL_value))

\* hold and reset of node n are visible if the value compares equal to 0
\* and hidden if it does not
Settled(n) ==
    /\ node[n].hold_shown <=> EqualsZero(node[n].VAL_value)
    /\ node[n].reset_shown <=> EqualsZero(node[n].VAL_value)

\* C12 amended: every run of the value callback, the deferred first one
\* and each later value change, leaves hold and reset visible exactly when
\* the value compares equal to 0, and no step of a created node undoes
\* that; nothing is said of the time between creation and the first run.
C12_ShownOnlyAtZeroOnceRun ==
    [][\A n \in session :
          /\ (last'.op \in {"value", "timer"} /\ last'.id = n) => Settled(n)'
          /\ (node[n].created /\ Settled(n)) => Settled(n)']_vars

\* C12 witness: the deferred callback ran on a node whose value is 5 and
\* hid hold and reset, which were visible since creation.
C12_Witness ==
    \E n \in session :
        /\ JustRan("timer", n)
        /\ node[n].created /\ ~node[n].timer
        /\ node[n].VAL_value = Number(5)
        /\ ~node[n].hold_shown /\ ~node[n].reset_shown

\* C13: a destroyed node has no listener on the bus, and no event that
\* comes after its destruction changes its cursor, items, currentLabel or
\* report.
C13_DestroyedNodeIsDeaf ==
    [][\A n \in session :
          /\ node'[n].destroyed => ~node'[n].subscribed
          /\ node[n].destroyed =>
                 /\ node'[n].data_index = node[n].data_index
                 /\ node'[n].data_all = node[n].data_all
                 /\ node'[n].data_current = node[n].data_current
                 /\ node'[n].report = node[n].report]_vars

\* C13 witness: a progress event carrying the id of destroyed node 1 was
\* dispatched to the bus, where node 2 still listens; node 1 shows the
\* progress it showed before and no listener took the event.
C13_Witness ==
    /\ JustRan("ping", 1)
    /\ last.seen = NoDetail
    /\ node[1].destroyed /\ ~node[1].subscribed
    /\ node[1].data_index = 2 /\ node[1].data_all = <<>>
    /\ node[2].subscribed

\* A connect event on output socket 0 resolved to an enumerated widget.
ComboConnectRan(n) ==
    ConnectRan(n) /\ Resolves(last.args[4]) /\ IsCombo(LinkedWidget)

\* C14 as stated: every change of the list, by an edit of the text widget
\* or by a new link to an enumerated widget, sends exactly one "reset"
\* with the node's id; progress events, done events and value changes
\* send none.
C14_OneResetPerListChange ==
    /\ \A n \in session :
           (JustRan("edit", n) \/ ComboConnectRan(n)) => last.sent = <<n>>
    /\ last.op \in {"ping", "done", "value", "timer"} => last.sent = <<>>

\* C16: a click on reset leaves the toggle false, sends one "reset" with
\* the node's id and changes nothing else of the node; a click that
\* follows a click leaves the node as it was.
C16_ResetClickOnlySignals ==
    [][\A n \in session :
          (last'.op = "reset" /\ last'.id = n) =>
              /\ node'[n] = [node[n] EXCEPT !.RESET_value = FALSE]
              /\ ~node'[n].RESET_value
              /\ last'.sent = <<n>>
              /\ JustRan("reset", n) => node'[n] = node[n]]_vars

\* C16 witness: reset was clicked on a node that shows progress 2 of 1.
C16_Witness ==
    \E n \in session :
        /\ JustRan("reset", n)
        /\ last.sent = <<n>>
        /\ ~node[n].RESET_value
        /\ node[n].data_index = 2
        /\ node[n].report = <<"[", "2", " ", "/", " ", "1", "]", NL, "a">>

\* C17: cursor is 1 after creation; a step gives it a value other than 1
\* only if it is a progress event the node's listener took; an edit that
\* comes to its end leaves it 1, and edits and new links change it to
\* nothing but 1; value changes, reset clicks, done events, the deferred
\* callback, connect attempts and disconnects leave it alone.
C17_CursorMovesOnlyByPing ==
    [][\A n \in session :
          /\ (last'.op = "create" /\ last'.id = n) => node'[n].data_index = 1
          /\ node'[n].data_index # node[n].data_index =>
                 \/ last'.op = "create" /\ last'.id = n
                 \/ /\ last'.op = "ping" /\ last'.id = n
                    /\ last'.seen # NoDetail
                    /\ node'[n].data_index = last'.seen.i
                 \/ /\ last'.op = "edit" /\ last'.id = n
                    /\ node'[n].data_index = 1
                 \/ /\ last'.op = "link" /\ last'.id = n
                    /\ last'.args[3] = "Connect"
                    /\ node'[n].data_index = 1
          /\ (last'.op = "edit" /\ last'.id = n /\ last'.outcome = "ok")
                 => node'[n].data_index = 1]_vars

\* C17 witness: an edit took cursor back to 1 on a node whose VAL widget
\* had been changed and whose list a progress event had filled.
C17_Witness ==
    \E n \in session :
        /\ JustRan("edit", n)
        /\ node[n].data_index = 1
        /\ node[n].data_all = << <<"a">> >>
        /\ node[n].VAL_value = Number(5)
        /\ ~node[n].timer

\* C18 as stated: a done event whose id matches the node's id plays the
\* completion flash and leaves the node's fields alone; one with another
\* id does nothing.
C18_DoneFlashes ==
    \A n \in session :
        (last.op = "done" /\ node[n].subscribed) =>
            IF last.id = n THEN last.outcome = "flash" ELSE last.outcome = "ok"

\* C20 as stated: every call of onConnectionsChange calls the previously
\* installed handler exactly once, and every onConnectOutput call that the
\* gate does not reject returns the previously installed handler's result.
C20_WrappersAlwaysChain ==
    /\ last.op = "link" => last.chained = 1
    /\ (last.op = "gate" /\ last.outcome # "reject") =>
           (last.outcome = "chain" /\ last.chained = 1)

\* C15 as stated: after getExtraMenuOptions the list the host shows has
\* no entry left whose label begins with "Convert", and, where the node
\* has convertible widgets, ends with their conversion entries and a null
\* separator.
C15_HostListStrippedAndExtended ==
    (menu.called /\ menu.has_options /\ menu.has_widgets) =>
        /\ \A k \in 1..Len(menu.host) :
               menu.host[k].kind = "item" => ~startsWith(menu.host[k].content, Convert)
        /\ menu.built # <<>> =>
               /\ Len(menu.host) >= Len(menu.built) + 1
               /\ SubSeq(menu.host, Len(menu.host) - Len(menu.built), Len(menu.host))
                      = menu.built \o <<Null>>

\* the number of entries of a list that carry the given label
RECURSIVE EntriesFor(_, _)
EntriesFor(entries, content) ==
    IF entries = <<>> THEN 0
    ELSE (IF Head(entries) = Item(content) THEN 1 ELSE 0)
         + EntriesFor(Tail(entries), content)

\* the number of times a name is declared
RECURSIVE Declared(_, _)
Declared(declared, name) ==
    IF declared = <<>> THEN 0
    ELSE (IF Head(declared) = name THEN 1 ELSE 0) + Declared(Tail(declared), name)

\* C19: getExtraMenuOptions builds one conversion entry for each declared
\* input whose name is that of a widget of the node which is not of the
\* converted type, has forceInput absent or false and has not menu false;
\* it builds no entry for any other name.
C19_EntryIffEligible ==
    menu.called =>
        \A name \in MenuNames :
            LET w == menu.found[name]
                eligible == /\ menu.has_widgets
                            /\ w.present
                            /\ w.type # CONVERTED_TYPE
                            /\ w.forceInput \in {"undefined", "false"}
                            /\ w.menu # "false"
            IN EntriesFor(menu.built, EntryContent(name))
                   = IF eligible THEN Declared(menu.declared, name) ELSE 0

\* C19 witness: inputs a and b are declared; widget a has forceInput false
\* and got its entry, widget b has menu false and got none.
C19_Witness ==
    /\ menu.called
    /\ menu.declared = <<"a", "b">>
    /\ menu.found["a"] = [present |-> TRUE, type |-> "number",
                          forceInput |-> "false", menu |-> "undefined"]
    /\ menu.found["b"] = [present |-> TRUE, type |-> "number",
                          forceInput |-> "undefined", menu |-> "false"]
    /\ menu.built = <<Item(EntryContent("a"))>>
    /\ menu.outcome = "ok"

====
